---- MODULE Spec2Model ----
(***************************************************************************)
(* The Trade Engine of SYS_AO_Bybit (src/trade_engine.py) together with    *)
(* the parts of the exchange client (src/bybit_v5.py) and of the state     *)
(* store (src/state.py) it uses.                                           *)
(*                                                                         *)
(* Numbers.  Prices and quantities are non-negative integers (price units  *)
(* and quantity units); a Python float that is the quotient of two such    *)
(* numbers is carried as numerator and denominator, so floor and round     *)
(* are computed exactly.  The presentation roundings of the source         *)
(* (round(x, 10), f"{x:.10f}") are the identity on these values.           *)
(* A Python None in a numeric field is the value None below.               *)
(***************************************************************************)
EXTENDS Integers, Sequences, FiniteSets

VARIABLES
    sweep,          \* the supervisor thread inside cancel_expired_entries
    DRY_RUN,        \* config.DRY_RUN, fixed when the process starts
    INITIAL_SL_PCT, \* config.INITIAL_SL_PCT, fixed when the process starts
    open_trades,    \* state["open_trades"]: trade_id -> trade record
    daily_counts,   \* state["daily_counts"]: day -> count
    now,            \* time.time()
    next_id,        \* number of signals admitted so far (the next trade_id)
    accepted,       \* orderLinkIds of the orders the exchange accepted
    resubmitted,    \* orderLinkIds handed to place_order again after acceptance
    last_stop,      \* symbol -> body of the most recent set_trading_stop
    last,           \* the handler that ran last: its inputs, its exchange calls, its result
    stop_moves,     \* trade_id -> set_trading_stop calls of on_execution that returned
    terminal_ts,    \* trade_id -> time the trade was set to closed or expired
    ws_pc,          \* run_private_ws: where the thread of the private stream is
    ws_reconnect,   \* run_private_ws: the reconnect argument
    ws_on_order,    \* run_private_ws: an on_order callback was given
    ws_clock,       \* time.time() of the stream's thread, in seconds
    ws_app,         \* the WebSocketApp of this turn of the loop: its signed expiry
    ws_sent,        \* the messages sent on the connection of this turn
    ws_got,         \* events handed to on_execution and on_order on this connection
    save_pc,        \* save_state: where the writer is, and the text it writes
    mem,            \* the state dict of the running process
    state_file,     \* STATE_FILE on disk
    tmp_file,       \* STATE_FILE.with_suffix(".tmp") on disk
    disk_last,      \* the state of the last save_state that reached its replace
    req             \* BybitV5._request: the call in progress and what it has seen

engine_vars == <<DRY_RUN, INITIAL_SL_PCT, open_trades, daily_counts, now, next_id,
                 accepted, resubmitted, last_stop, last, stop_moves, terminal_ts>>

thread_vars == <<sweep>>

ws_vars == <<ws_pc, ws_reconnect, ws_on_order, ws_clock, ws_app, ws_sent, ws_got>>

disk_vars == <<save_pc, mem, state_file, tmp_file, disk_last>>

http_vars == <<req>>

vars == <<engine_vars, thread_vars, ws_vars, disk_vars, http_vars>>

None == 0 - 1

----------------------------------------------------------------------------
(* Bounds of the model *)

MaxTrades == 1

MaxAdvance == 1

\* trades in open_trades when the maintenance sweeps are looked at on their own
SweepTrades == 2

\* the clock of the private stream stops counting here
MaxWsClock == 6

\* events of one connection that are counted
MaxWsEvents == 2

----------------------------------------------------------------------------
(* config.py *)

ENTRY_EXPIRATION_MIN == 180

\* config.py line 51: the value INITIAL_SL_PCT has when the environment sets none
DefaultInitialSlPct == 19

\* ENTRY_TOO_FAR_PCT = 0.5, as numerator and denominator
ENTRY_TOO_FAR_PCT == <<5, 10>>

\* ENTRY_EXPIRATION_PRICE_PCT = 0.6
ENTRY_EXPIRATION_PRICE_PCT == <<6, 10>>

\* ENTRY_TRIGGER_BUFFER_PCT = 0.0
ENTRY_TRIGGER_BUFFER_PCT == <<0, 10>>

\* ENTRY_LIMIT_PRICE_OFFSET_PCT = 0.0
ENTRY_LIMIT_PRICE_OFFSET_PCT == <<0, 10>>

LEVERAGE == 5

RISK_PCT == 5

MOVE_SL_TO_BE_ON_TP1 == TRUE

TP_SPLITS == <<30, 30, 30, 10>>

TRAIL_AFTER_TP_INDEX == 3

\* TRAIL_DISTANCE_PCT = 2.0
TRAIL_DISTANCE_PCT == <<2, 1>>

TRAIL_ACTIVATE_ON_TP == TRUE

\* DCA_QTY_MULTS = 1.5, 2.25, 3.0, each in hundredths
DCA_QTY_MULTS == <<150, 225, 300>>

----------------------------------------------------------------------------
(* Arithmetic helpers *)

Min(a, b) == IF a <= b THEN a ELSE b

\* Python round(n / d) for n >= 0, d > 0: to the nearest integer, ties to even
PyRound(n, d) ==
    LET q == n \div d
        r == n % d
    IN  IF 2 * r < d THEN q
        ELSE IF 2 * r > d THEN q + 1
        ELSE IF q % 2 = 0 THEN q ELSE q + 1

\* a step that rounds up instead of down
_floor_to_step_up(n, d, step) == ((n + d * step - 1) \div (d * step)) * step

\* _floor_to_step(x, step) for x = n / d and step > 0
_floor_to_step(n, d, step) == (n \div (d * step)) * step

\* _round_price(price, tick_size) for price = n / d
_round_price(n, d, tick_size) ==
    IF tick_size <= 0 THEN n \div d ELSE PyRound(n, d * tick_size) * tick_size

\* _round_qty(qty, qty_step, min_qty) for qty = n / d
_round_qty(n, d, qty_step, min_qty) ==
    LET qty == _floor_to_step(n, d, qty_step)
    IN  IF qty < min_qty THEN min_qty ELSE qty

_opposite_side(side) == IF side = "Buy" THEN "Sell" ELSE "Buy"

----------------------------------------------------------------------------
(* The environment: signals, prices, exchange answers *)

\* Python None where an order id is expected
NoOid == "None"

Symbols == {"BTCUSDT", "ETHUSDT"}

\* signals the intake adapter hands to the engine
Signals ==
    { [symbol |-> "BTCUSDT", side |-> "buy", trigger |-> 1002,
       tp_prices |-> <<1011, 1022, 1033, 1044>>, sl_price |-> 958,
       dca_prices |-> <<977>>],
      [symbol |-> "ETHUSDT", side |-> "sell", trigger |-> 1002,
       tp_prices |-> <<989, 978, 967, 956>>, sl_price |-> None,
       dca_prices |-> <<>>] }

\* answers of last_price
LastPrices == {996, 997, 1007, 1008}

\* answers of last_price while the post-entry orders are laid down
LayLastPrices == {970, 1007}

\* answers of wallet_equity
Equities == {100000}

\* answers of positions: the size of the position
Sizes == {0, 4, 50}

\* what instruments_info answers (_get_instrument_rules): all positive
rules == [tick_size |-> 5, qty_step |-> 2, min_qty |-> 2]

\* an orderLinkId: "<tid>" when tag = "", "<tid>:<tag><n>" otherwise;
\* tid = None is a missing orderLinkId, tid = 0 the id of no trade
Link(tid, tag, n) == [tid |-> tid, tag |-> tag, n |-> n]

\* a call of a mutating exchange operation; ok = FALSE when it raised
Call(fn, symbol, ok) ==
    [fn |-> fn, symbol |-> symbol, ok |-> ok, link |-> Link(None, "", 0),
     side |-> "", qty |-> None, price |-> None, td |-> None,
     stopLoss |-> None, activePrice |-> None, trailingStop |-> None]

\* the orderId the exchange answers for the TP order of a rank
TpOid == <<"oid-TP1", "oid-TP2", "oid-TP3", "oid-TP4">>

DryTpOid == <<"DRY_TP1", "DRY_TP2", "DRY_TP3", "DRY_TP4">>

----------------------------------------------------------------------------
(* Entry gatekeepers *)

\* the Sell test applied to both sides
_too_far_one_sided(side, lastp, trigger) ==
    lastp * 100 * ENTRY_TOO_FAR_PCT[2]
        <= trigger * (100 * ENTRY_TOO_FAR_PCT[2] - ENTRY_TOO_FAR_PCT[1])

_too_far(side, lastp, trigger) ==
    IF side = "Sell"
    THEN lastp * 100 * ENTRY_TOO_FAR_PCT[2]
            <= trigger * (100 * ENTRY_TOO_FAR_PCT[2] - ENTRY_TOO_FAR_PCT[1])
    ELSE lastp * 100 * ENTRY_TOO_FAR_PCT[2]
            >= trigger * (100 * ENTRY_TOO_FAR_PCT[2] + ENTRY_TOO_FAR_PCT[1])

_beyond_expiry_price(side, lastp, trigger) ==
    IF ENTRY_EXPIRATION_PRICE_PCT[1] <= 0 THEN FALSE
    ELSE IF side = "Sell"
    THEN lastp * 100 * ENTRY_EXPIRATION_PRICE_PCT[2]
            <= trigger * (100 * ENTRY_EXPIRATION_PRICE_PCT[2] - ENTRY_EXPIRATION_PRICE_PCT[1])
    ELSE lastp * 100 * ENTRY_EXPIRATION_PRICE_PCT[2]
            >= trigger * (100 * ENTRY_EXPIRATION_PRICE_PCT[2] + ENTRY_EXPIRATION_PRICE_PCT[1])

_trigger_direction(lastp, trigger) ==
    IF lastp < trigger THEN 1 ELSE IF lastp > trigger THEN 2 ELSE 1

\* calc_base_qty: equity * RISK_PCT / 100 * LEVERAGE / entry_price, rounded
calc_base_qty(equity, entry_price) ==
    _round_qty(equity * RISK_PCT * LEVERAGE, 100 * entry_price,
               rules.qty_step, rules.min_qty)

----------------------------------------------------------------------------
(* Admission *)

\* where an exchange call of place_conditional_entry raises
AdmitFails == {"none", "set_leverage", "last_price", "instruments_info", "place_order"}

\* place_conditional_entry(sig, trade_id) with the exchange answering lastp and
\* equity: the mutating calls it makes, the order id it returns, whether it raised
place_conditional_entry(sig, trade_id, lastp, equity, fail) ==
    LET symbol == sig.symbol
        side == IF sig.side = "sell" THEN "Sell" ELSE "Buy"
        trigger == sig.trigger
        lev == IF DRY_RUN THEN <<>>
               ELSE << [Call("set_leverage", symbol, fail # "set_leverage")
                          EXCEPT !.qty = LEVERAGE] >>
        tick_size == rules.tick_size
        bn == ENTRY_TRIGGER_BUFFER_PCT[1]
        bd == ENTRY_TRIGGER_BUFFER_PCT[2]
        trigger_adj ==
            IF side = "Buy"
            THEN _round_price(trigger * (100 * bd - bn), 100 * bd, tick_size)
            ELSE _round_price(trigger * (100 * bd + bn), 100 * bd, tick_size)
        on == IF ENTRY_LIMIT_PRICE_OFFSET_PCT[1] < 0
              THEN 0 - ENTRY_LIMIT_PRICE_OFFSET_PCT[1]
              ELSE ENTRY_LIMIT_PRICE_OFFSET_PCT[1]
        od == ENTRY_LIMIT_PRICE_OFFSET_PCT[2]
        limit_price ==
            IF on = 0 THEN _round_price(trigger, 1, tick_size)
            ELSE IF side = "Sell"
            THEN _round_price(trigger * (100 * od + on), 100 * od, tick_size)
            ELSE _round_price(trigger * (100 * od - on), 100 * od, tick_size)
        qty == calc_base_qty(equity, trigger)
        td == _trigger_direction(lastp, trigger_adj)
        order == [Call("place_order", symbol, fail # "place_order")
                    EXCEPT !.link = Link(trade_id, "", 0), !.side = side, !.qty = qty,
                           !.price = limit_price, !.td = td]
    IN  IF fail = "last_price"
        THEN [calls |-> lev, ret |-> NoOid, raised |-> TRUE]
        ELSE IF _too_far(side, lastp, trigger)
        THEN [calls |-> lev, ret |-> NoOid, raised |-> FALSE]
        ELSE IF _beyond_expiry_price(side, lastp, trigger)
        THEN [calls |-> lev, ret |-> NoOid, raised |-> FALSE]
        ELSE IF fail = "instruments_info"
        THEN [calls |-> lev, ret |-> NoOid, raised |-> TRUE]
        ELSE IF DRY_RUN
        THEN [calls |-> lev, ret |-> "DRY_RUN", raised |-> FALSE]
        ELSE IF fail = "place_order"
        THEN [calls |-> lev \o <<order>>, ret |-> NoOid, raised |-> TRUE]
        ELSE [calls |-> lev \o <<order>>, ret |-> "oid-entry", raised |-> FALSE]

----------------------------------------------------------------------------
(* state.py *)

\* _utc_day_key: the UTC day of the clock
_utc_day_key == now \div 86400

\* incr_daily(st): the daily_counts it leaves
incr_daily(dc) ==
    [d \in (DOMAIN dc) \cup {_utc_day_key} |->
        (IF d \in DOMAIN dc THEN dc[d] ELSE 0) + (IF d = _utc_day_key THEN 1 ELSE 0)]

\* the record the supervisor stores for an admitted signal
NewTrade(sig, trade_id, oid, base_qty) ==
    [id |-> trade_id, symbol |-> sig.symbol,
     order_side |-> IF sig.side = "sell" THEN "Sell" ELSE "Buy",
     trigger |-> sig.trigger, entry_price |-> None, base_qty |-> base_qty,
     sl_price |-> sig.sl_price, tp_prices |-> sig.tp_prices,
     dca_prices |-> sig.dca_prices,
     entry_order_id |-> oid, tp_order_ids |-> <<>>, tp1_order_id |-> NoOid,
     status |-> "pending", post_orders_placed |-> FALSE,
     sl_moved_to_be |-> FALSE, trailing_started |-> FALSE,
     placed_ts |-> now, filled_ts |-> None, closed_ts |-> None]

----------------------------------------------------------------------------
(* The exchange's view of the calls of a handler *)

OkCalls(calls, fn) == {i \in 1..Len(calls) : calls[i].fn = fn /\ calls[i].ok}

\* orderLinkIds the exchange accepted from these calls
AcceptedBy(calls) == {calls[i].link : i \in OkCalls(calls, "place_order")}

\* orderLinkIds handed to place_order although the exchange had accepted them
ResubmittedBy(calls) ==
    {calls[i].link : i \in {j \in 1..Len(calls) :
        calls[j].fn = "place_order" /\ calls[j].link \in accepted}}

\* the most recent set_trading_stop body per symbol after these calls
StopsAfter(calls) ==
    [s \in Symbols |->
        LET mine == {i \in OkCalls(calls, "set_trading_stop") : calls[i].symbol = s}
        IN  IF mine = {} THEN last_stop[s]
            ELSE calls[CHOOSE i \in mine : \A j \in mine : j <= i]]

Exchange(calls) ==
    /\ accepted' = accepted \cup AcceptedBy(calls)
    /\ resubmitted' = resubmitted \cup ResubmittedBy(calls)
    /\ last_stop' = StopsAfter(calls)

\* the set_trading_stop calls of an on_execution for trade tid that returned,
\* counted by kind: a trailing activation carries activePrice, a break-even
\* move does not
StopMovesAfter(tid, calls) ==
    LET ok == OkCalls(calls, "set_trading_stop")
        trail == {i \in ok : calls[i].activePrice # None}
    IN  [t \in DOMAIN stop_moves |->
            IF t = tid
            THEN [be |-> stop_moves[t].be + Cardinality(ok \ trail),
                  trail |-> stop_moves[t].trail + Cardinality(trail)]
            ELSE stop_moves[t]]

\* when each closed or expired trade of this table entered that status
TerminalAfter(trades) ==
    [t \in {x \in DOMAIN trades : trades[x].status \in {"closed", "expired"}} |->
        IF t \in DOMAIN terminal_ts THEN terminal_ts[t] ELSE now]

\* the record of the handler that ran last
Ran(op, tid, calls) ==
    [op |-> op, tid |-> tid, calls |-> calls, ret |-> NoOid, raised |-> FALSE,
     side |-> "", lastp |-> None, trigger |-> None, size |-> None,
     sizes |-> <<>>, tag |-> "", n |-> 0, filled |-> FALSE, during |-> sweep.op]

----------------------------------------------------------------------------
(* Post-entry lay-down *)

\* one step of place_post_entry_orders: exch says whether it is an exchange
\* call (and so can raise), call is the mutating call made, rank the TP rank
Step(kind, exch, rank, call) == [kind |-> kind, exch |-> exch, rank |-> rank, call |-> call]

ReadStep(symbol) == Step("read", TRUE, 0, Call("read", symbol, TRUE))

\* lines 191-208: the position-level stop-loss update
LayDownStop(trade) ==
    LET entry == trade.entry_price
        sl == IF trade.sl_price = None
              THEN IF trade.order_side = "Sell"
                   THEN _round_price(entry * (100 + 19), 100, rules.tick_size)
                   ELSE _round_price(entry * (100 - 19), 100, rules.tick_size)
              ELSE _round_price(trade.sl_price, 1, rules.tick_size)
    IN  [Call("set_trading_stop", trade.symbol, TRUE) EXCEPT !.stopLoss = sl]

\* a TP ladder that places its orders whatever DRY_RUN says
TpStepsUnguarded(trade, size) ==
    LET splits == TP_SPLITS
        tp_to_place == Min(Len(trade.tp_prices), Len(splits))
        One(idx) ==
            Step("tp", TRUE, idx,
                 [Call("place_order", trade.symbol, TRUE)
                    EXCEPT !.link = Link(trade.id, "TP", idx),
                           !.side = _opposite_side(trade.order_side),
                           !.qty = _round_qty(size * splits[idx], 100,
                                              rules.qty_step, rules.min_qty),
                           !.price = _round_price(trade.tp_prices[idx], 1, rules.tick_size)])
        Placed(st) == splits[st.rank] > 0
    IN  SelectSeq([idx \in 1..tp_to_place |-> One(idx)], Placed)

\* lines 217-248: the steps of the TP ladder for a position of this size
TpSteps(trade, size) ==
    LET splits == TP_SPLITS
        tp_to_place == Min(Len(trade.tp_prices), Len(splits))
        One(idx) ==
            Step("tp", ~DRY_RUN, idx,
                 [Call("place_order", trade.symbol, TRUE)
                    EXCEPT !.link = Link(trade.id, "TP", idx),
                           !.side = _opposite_side(trade.order_side),
                           !.qty = _round_qty(size * splits[idx], 100,
                                              rules.qty_step, rules.min_qty),
                           !.price = _round_price(trade.tp_prices[idx], 1, rules.tick_size)])
        Placed(st) == splits[st.rank] > 0
    IN  SelectSeq([idx \in 1..tp_to_place |-> One(idx)], Placed)

\* lines 250-279: the steps of the DCA orders, after the last-price query
DcaSteps(trade, lastp) ==
    LET dca_to_place == Min(Len(trade.dca_prices), Len(DCA_QTY_MULTS))
        One(j) ==
            LET price == _round_price(trade.dca_prices[j], 1, rules.tick_size)
            IN  Step("dca", ~DRY_RUN, j,
                     [Call("place_order", trade.symbol, TRUE)
                        EXCEPT !.link = Link(trade.id, "DCA", j),
                               !.side = trade.order_side,
                               !.qty = _round_qty(trade.base_qty * DCA_QTY_MULTS[j], 100,
                                                  rules.qty_step, rules.min_qty),
                               !.price = price,
                               !.td = _trigger_direction(lastp, price)])
    IN  <<ReadStep(trade.symbol)>> \o [j \in 1..dca_to_place |-> One(j)]

\* which exchange call of an invocation raises: none (0), the stop-loss update
\* (2), the position query (3), the second TP order (5), the last-price query
\* (8), the first DCA order (9)
LayFails == {0, 2, 3, 5, 8, 9}

\* a lay-down that submits the DCA orders before the TP ladder
LayDownStepsDcaFirst(trade, size, lastp) ==
    <<ReadStep(trade.symbol)>>
    \o (IF DRY_RUN THEN <<>> ELSE <<Step("sl", TRUE, 0, LayDownStop(trade))>>)
    \o <<ReadStep(trade.symbol)>>
    \o (IF size <= 0 THEN <<>> ELSE DcaSteps(trade, lastp) \o TpSteps(trade, size))

\* a lay-down that goes on to the ladder whatever the position size
LayDownStepsAnySize(trade, size, lastp) ==
    <<ReadStep(trade.symbol)>>
    \o (IF DRY_RUN THEN <<>> ELSE <<Step("sl", TRUE, 0, LayDownStop(trade))>>)
    \o <<ReadStep(trade.symbol)>>
    \o TpSteps(trade, size) \o DcaSteps(trade, lastp)

\* the steps of one invocation when no exchange call raises
LayDownSteps(trade, size, lastp) ==
    <<ReadStep(trade.symbol)>>
    \o (IF DRY_RUN THEN <<>> ELSE <<Step("sl", TRUE, 0, LayDownStop(trade))>>)
    \o <<ReadStep(trade.symbol)>>
    \o (IF size <= 0 THEN <<>> ELSE TpSteps(trade, size) \o DcaSteps(trade, lastp))

\* the position in steps of the fail-th exchange call, Len + 1 when there is none
RaisesAt(steps, fail) ==
    LET hit == {i \in 1..Len(steps) :
                   /\ steps[i].exch
                   /\ Cardinality({j \in 1..i : steps[j].exch}) = fail}
    IN  IF hit = {} THEN Len(steps) + 1 ELSE CHOOSE i \in hit : TRUE

\* place_post_entry_orders(trade) with the exchange answering size and lastp and
\* raising in its fail-th call (0: in none): the trade it leaves, its calls
place_post_entry_orders(trade, size, lastp, fail) ==
    LET steps == LayDownSteps(trade, size, lastp)
        at == RaisesAt(steps, fail)
        done == SubSeq(steps, 1, Min(at, Len(steps) + 1) - 1)
        IsMut(st) == st.kind # "read" /\ st.exch
        tried == IF at <= Len(steps) /\ IsMut(steps[at])
                 THEN <<[steps[at].call EXCEPT !.ok = FALSE]>> ELSE <<>>
        mut == SelectSeq(done, IsMut)
        ranks == {done[i].rank : i \in {j \in 1..Len(done) : done[j].kind = "tp"}}
        ids == [r \in (DOMAIN trade.tp_order_ids) \cup ranks |->
                   IF r \in ranks
                   THEN (IF DRY_RUN THEN DryTpOid[r] ELSE TpOid[r])
                   ELSE trade.tp_order_ids[r]]
        complete == at > Len(steps) /\ size > 0
    IN  IF trade.entry_price = None
        THEN [trade |-> trade, calls |-> <<>>, raised |-> TRUE]
        ELSE [trade |-> [trade EXCEPT
                            !.tp_order_ids = ids,
                            !.tp1_order_id = IF 1 \in ranks THEN ids[1] ELSE @,
                            !.post_orders_placed = IF complete THEN TRUE ELSE @],
              calls |-> [i \in 1..Len(mut) |-> mut[i].call] \o tried,
              raised |-> at <= Len(steps)]

----------------------------------------------------------------------------
(* Execution events *)

\* Python values of an event's price fields: a missing field, a number, the
\* decimal string of a number, a string that is no number
PyNone == [k |-> "none", v |-> 0]

PyNum(v) == [k |-> "num", v |-> v]

PyStr(v) == [k |-> "str", v |-> v]

PyBad == [k |-> "bad", v |-> 0]

Truthy(x) == x.k \in {"str", "bad"} \/ (x.k = "num" /\ x.v # 0)

PyOr(a, b) == IF Truthy(a) THEN a ELSE b

\* float(x) succeeds
Floats(x) == x.k \in {"num", "str"}

\* the price fields (execPrice, price, lastPrice) an entry event can carry
PriceFields ==
    { <<PyNone, PyNone, PyNone>>,
      <<PyStr(1002), PyNone, PyNone>>,
      <<PyNone, PyStr(1002), PyNone>>,
      <<PyNone, PyNone, PyStr(1002)>>,
      <<PyNum(0), PyNone, PyStr(1002)>>,
      <<PyNum(0), PyNum(0), PyNum(0)>>,
      <<PyStr(0), PyStr(1002), PyNone>>,
      <<PyNone, PyNone, PyStr(0)>>,
      <<PyBad, PyStr(1002), PyNone>>,
      <<PyNone, PyBad, PyNone>> }

\* lines 292-301: the entry fill of a pending trade
EntryFill(tr, ev) ==
    LET exec_price == PyOr(ev.execPrice, PyOr(ev.price, PyOr(ev.lastPrice, PyNum(tr.trigger))))
    IN  [tr EXCEPT !.entry_price = IF Floats(exec_price) THEN exec_price.v ELSE @,
                   !.status = "open",
                   !.filled_ts = now]

\* lines 321-322 and _move_sl: the call that moves the stop-loss to break-even
_move_sl(tr) ==
    LET be == IF tr.entry_price # None /\ tr.entry_price # 0
              THEN tr.entry_price ELSE tr.trigger
    IN  [Call("set_trading_stop", tr.symbol, TRUE)
            EXCEPT !.stopLoss = _round_price(be, 1, rules.tick_size)]

\* a trailing activation that sends the percentage as the distance
_start_trailing_pct(tr, tp_num, lastp) ==
    LET anchor == _round_price(tr.tp_prices[tp_num], 1, rules.tick_size)
    IN  [Call("set_trading_stop", tr.symbol, TRUE)
            EXCEPT !.activePrice = anchor,
                   !.trailingStop = TRAIL_DISTANCE_PCT[1] \div TRAIL_DISTANCE_PCT[2]]

\* _start_trailing(tr, tp_num): the call that activates the trailing stop
_start_trailing(tr, tp_num, lastp) ==
    LET tick_size == rules.tick_size
        anchor == IF Len(tr.tp_prices) < tp_num
                  THEN _round_price(lastp, 1, tick_size)
                  ELSE _round_price(tr.tp_prices[tp_num], 1, tick_size)
        dist == _round_price(anchor * TRAIL_DISTANCE_PCT[1],
                             100 * TRAIL_DISTANCE_PCT[2], tick_size)
    IN  [Call("set_trading_stop", tr.symbol, TRUE)
            EXCEPT !.activePrice = anchor,
                   !.trailingStop = dist,
                   !.stopLoss = IF tr.sl_moved_to_be /\ tr.entry_price # None
                                   /\ tr.entry_price # 0
                                THEN _round_price(tr.entry_price, 1, tick_size)
                                ELSE None]

\* where an exchange call of on_execution raises
ExecFails == {"none", "read", "set_trading_stop"}

\* a TP reaction that does not look at sl_moved_to_be and trailing_started
TpEventUnguarded(tr, tp_num, lastp, fail) ==
    LET raises == fail = "read" \/ (fail = "set_trading_stop" /\ ~DRY_RUN)
        be == MOVE_SL_TO_BE_ON_TP1 /\ tp_num = 1
        trail == TRAIL_ACTIVATE_ON_TP /\ tp_num = TRAIL_AFTER_TP_INDEX /\ ~(be /\ raises)
        be_calls == IF ~be \/ DRY_RUN \/ fail = "read" THEN <<>>
                    ELSE <<[_move_sl(tr) EXCEPT !.ok = (fail = "none")]>>
        trail_calls == IF ~trail \/ DRY_RUN \/ fail = "read" THEN <<>>
                       ELSE <<[_start_trailing(tr, tp_num, lastp) EXCEPT !.ok = ~raises]>>
    IN  [trade |-> [tr EXCEPT
                       !.sl_moved_to_be = IF be /\ ~raises THEN TRUE ELSE @,
                       !.trailing_started = IF trail /\ ~raises THEN TRUE ELSE @],
         calls |-> be_calls \o trail_calls,
         raised |-> (be \/ trail) /\ raises]

\* lines 304-330: a TP event for trade record tr; the record it leaves, its calls
TpEvent(tr, tp_num, lastp, fail) ==
    LET be == MOVE_SL_TO_BE_ON_TP1 /\ tp_num = 1 /\ ~tr.sl_moved_to_be
        be_raises == be /\ (fail = "read" \/ (fail = "set_trading_stop" /\ ~DRY_RUN))
        be_calls == IF ~be \/ DRY_RUN \/ fail = "read" THEN <<>>
                    ELSE <<[_move_sl(tr) EXCEPT !.ok = (fail = "none")]>>
        tr1 == IF be /\ ~be_raises THEN [tr EXCEPT !.sl_moved_to_be = TRUE] ELSE tr
        trail == /\ ~be_raises
                 /\ TRAIL_ACTIVATE_ON_TP
                 /\ tp_num = TRAIL_AFTER_TP_INDEX
                 /\ ~tr1.trailing_started
        \* both blocks run only for TRAIL_AFTER_TP_INDEX = 1; a raise is then
        \* taken in the first block
        trail_raises == trail /\ ~be
                        /\ (fail = "read" \/ (fail = "set_trading_stop" /\ ~DRY_RUN))
        trail_calls == IF ~trail \/ DRY_RUN \/ (fail = "read" /\ ~be) THEN <<>>
                       ELSE <<[_start_trailing(tr1, tp_num, lastp)
                                  EXCEPT !.ok = ~trail_raises]>>
        tr2 == IF trail /\ ~trail_raises THEN [tr1 EXCEPT !.trailing_started = TRUE] ELSE tr1
    IN  [trade |-> tr2, calls |-> be_calls \o trail_calls,
         raised |-> be_raises \/ trail_raises]

Event(link, f) ==
    [link |-> link, execPrice |-> f[1], price |-> f[2], lastPrice |-> f[3]]

\* the execution events of the private stream: entry events of the trades with
\* each choice of price fields; TP events of every rank; and events the engine
\* has no use for (no orderLinkId, the id of no trade, TP0, a DCA fill)
Events ==
    {Event(Link(t, "", 0), f) : t \in 1..MaxTrades, f \in PriceFields}
    \cup {Event(Link(t, "TP", n), <<PyStr(1002), PyNone, PyNone>>) :
             t \in 1..MaxTrades, n \in 0..4}
    \cup {Event(l, <<PyStr(1002), PyNone, PyNone>>) :
             l \in {Link(None, "", 0), Link(0, "", 0), Link(0, "TP", 1)}
                   \cup {Link(t, "DCA", 1) : t \in 1..MaxTrades}}

\* an on_execution that lays the post-entry orders down in the fill event itself
on_execution_laying_down(ev, lastp, fail) ==
    LET tr == EntryFill(open_trades[ev.link.tid], ev)
        r == place_post_entry_orders(tr, 50, lastp, 0)
    IN  IF ev.link.tag = "" /\ ev.link.tid \in DOMAIN open_trades
           /\ open_trades[ev.link.tid].status = "pending"
        THEN [trades |-> [open_trades EXCEPT ![ev.link.tid] = r.trade],
              calls |-> r.calls, raised |-> r.raised, filled |-> TRUE]
        ELSE [trades |-> open_trades, calls |-> <<>>, raised |-> FALSE, filled |-> FALSE]

\* an on_execution that reads the digits of any suffix as a TP rank
on_execution_any_suffix(ev, lastp, fail) ==
    LET link == ev.link
        same == [trades |-> open_trades, calls |-> <<>>, raised |-> FALSE, filled |-> FALSE]
    IN  IF link.tid = None THEN same
        ELSE IF link.tag = ""
        THEN IF link.tid \in DOMAIN open_trades /\ open_trades[link.tid].status = "pending"
             THEN [same EXCEPT
                      !.trades = [open_trades EXCEPT
                                     ![link.tid] = EntryFill(open_trades[link.tid], ev)],
                      !.filled = TRUE]
             ELSE same
        ELSE IF link.tid \notin DOMAIN open_trades \/ link.n = 0 THEN same
             ELSE LET r == TpEvent(open_trades[link.tid], link.n, None, fail)
                  IN  [trades |-> [open_trades EXCEPT ![link.tid] = r.trade],
                       calls |-> r.calls, raised |-> r.raised, filled |-> FALSE]

\* on_execution(ev): the open_trades it leaves, its calls, whether it raised,
\* whether it moved a pending trade to open
on_execution(ev, lastp, fail) ==
    LET link == ev.link
        same == [trades |-> open_trades, calls |-> <<>>, raised |-> FALSE, filled |-> FALSE]
    IN  IF link.tid = None THEN same
        ELSE IF link.tag = ""
        THEN IF link.tid \in DOMAIN open_trades /\ open_trades[link.tid].status = "pending"
             THEN [same EXCEPT
                      !.trades = [open_trades EXCEPT
                                     ![link.tid] = EntryFill(open_trades[link.tid], ev)],
                      !.filled = TRUE]
             ELSE same
        ELSE IF link.tag = "TP"
        THEN IF link.tid \notin DOMAIN open_trades \/ link.n = 0 THEN same
             ELSE LET r == TpEvent(open_trades[link.tid], link.n, lastp, fail)
                  IN  [trades |-> [open_trades EXCEPT ![link.tid] = r.trade],
                       calls |-> r.calls, raised |-> r.raised, filled |-> FALSE]
        ELSE same

----------------------------------------------------------------------------
(* Maintenance sweeps *)

\* an expiry test that does not look at the status of the trade
OverdueAnyStatus(tr) ==
    /\ tr.placed_ts # None /\ tr.placed_ts # 0
    /\ now - tr.placed_ts > ENTRY_EXPIRATION_MIN * 60

\* line 392: the entry of this pending trade has outlived ENTRY_EXPIRATION_MIN
Overdue(tr) ==
    /\ tr.status = "pending"
    /\ tr.placed_ts # None /\ tr.placed_ts # 0
    /\ now - tr.placed_ts > ENTRY_EXPIRATION_MIN * 60

\* a pass over one trade in which the exception of cancel_order is not caught
ExpireOneUncaught(t, fails) ==
    LET tr == open_trades[t]
        cancels == /\ Overdue(tr) /\ ~DRY_RUN
                   /\ tr.entry_order_id # NoOid /\ tr.entry_order_id # "DRY_RUN"
        escapes == cancels /\ t \in fails
    IN  [trade |-> IF Overdue(tr) /\ ~escapes THEN [tr EXCEPT !.status = "expired"] ELSE tr,
         calls |-> IF cancels
                   THEN <<[Call("cancel_order", tr.symbol, t \notin fails)
                             EXCEPT !.link = Link(t, "", 0)]>>
                   ELSE <<>>,
         escapes |-> escapes]

\* a pass over one trade that leaves the trade pending when its cancel raises
ExpireOneKeepsOnError(t, fails) ==
    LET tr == open_trades[t]
        cancels == /\ Overdue(tr) /\ ~DRY_RUN
                   /\ tr.entry_order_id # NoOid /\ tr.entry_order_id # "DRY_RUN"
    IN  [trade |-> IF Overdue(tr) /\ ~(cancels /\ t \in fails)
                   THEN [tr EXCEPT !.status = "expired"] ELSE tr,
         calls |-> IF cancels
                   THEN <<[Call("cancel_order", tr.symbol, t \notin fails)
                             EXCEPT !.link = Link(t, "", 0)]>>
                   ELSE <<>>,
         escapes |-> FALSE]

\* lines 389-400: the pass of cancel_expired_entries over one trade, the cancel
\* raising for the trades in fails: the record it leaves, the call it makes,
\* whether an exception leaves the loop
ExpireOne(t, fails) ==
    LET tr == open_trades[t]
        cancels == /\ Overdue(tr) /\ ~DRY_RUN
                   /\ tr.entry_order_id # NoOid /\ tr.entry_order_id # "DRY_RUN"
    IN  [trade |-> IF Overdue(tr) THEN [tr EXCEPT !.status = "expired"] ELSE tr,
         calls |-> IF cancels
                   THEN <<[Call("cancel_order", tr.symbol, t \notin fails)
                             EXCEPT !.link = Link(t, "", 0)]>>
                   ELSE <<>>,
         escapes |-> FALSE]

\* line 388: the loop over the trades ids in the order of open_trades; an
\* exception that leaves a pass ends the loop
RECURSIVE CancelSweep(_, _)
CancelSweep(ids, fails) ==
    IF ids = {} THEN [trades |-> <<>>, calls |-> <<>>]
    ELSE LET t == CHOOSE x \in ids : \A y \in ids : x <= y
             r == ExpireOne(t, fails)
             rest == IF r.escapes
                     THEN [trades |-> [x \in ids \ {t} |-> open_trades[x]], calls |-> <<>>]
                     ELSE CancelSweep(ids \ {t}, fails)
         IN  [trades |-> [x \in ids |-> IF x = t THEN r.trade ELSE rest.trades[x]],
              calls |-> r.calls \o rest.calls]

\* the cancel_order calls of a sweep
CancelCalls(ids, fails) == CancelSweep(ids, fails).calls

\* cancel_expired_entries: the open_trades it leaves
cancel_expired_entries(fails) == CancelSweep(DOMAIN open_trades, fails).trades

\* lines 405-414: the pass of cleanup_closed_trades over one trade, the exchange
\* answering size (None: the query raises)
CloseOne(t, size) ==
    [trade |-> IF open_trades[t].status = "open" /\ size = 0
               THEN [open_trades[t] EXCEPT !.status = "closed", !.closed_ts = now]
               ELSE open_trades[t],
     escapes |-> FALSE]

\* line 404: the loop over the trades ids
RECURSIVE CloseSweep(_, _)
CloseSweep(ids, sz) ==
    IF ids = {} THEN <<>>
    ELSE LET t == CHOOSE x \in ids : \A y \in ids : x <= y
             r == CloseOne(t, sz[t])
             rest == IF r.escapes THEN [x \in ids \ {t} |-> open_trades[x]]
                     ELSE CloseSweep(ids \ {t}, sz)
         IN  [x \in ids |-> IF x = t THEN r.trade ELSE rest[x]]

\* a sweep that closes a trade also when its position query raised
cleanup_closed_trades_on_error(sz) ==
    [t \in DOMAIN open_trades |->
        IF open_trades[t].status = "open" /\ sz[t] <= 0
        THEN [open_trades[t] EXCEPT !.status = "closed", !.closed_ts = now]
        ELSE open_trades[t]]

\* cleanup_closed_trades with the exchange answering size sz[t] for trade t
\* (None: the query raises): the open_trades it leaves
cleanup_closed_trades(sz) ==
    LET closed == CloseSweep(DOMAIN open_trades, sz)
        cutoff == now - 86400
        closed_at(tr) == IF tr.closed_ts # None /\ tr.closed_ts # 0 THEN tr.closed_ts
                         ELSE IF tr.placed_ts # None /\ tr.placed_ts # 0 THEN tr.placed_ts
                         ELSE 0
        keep == {t \in DOMAIN closed :
                    ~(closed[t].status \in {"closed", "expired"}
                      /\ closed_at(closed[t]) < cutoff)}
    IN  [t \in keep |-> closed[t]]

----------------------------------------------------------------------------
(* The state machine *)

\* the engine after construction on the state load_state returns with no file
EngineInit ==
    /\ open_trades = <<>>
    /\ daily_counts = <<>>
    /\ now = 1
    /\ next_id = 0
    /\ accepted = {}
    /\ resubmitted = {}
    /\ last_stop = [s \in Symbols |-> Call("none", s, FALSE)]
    /\ last = Ran("init", None, <<>>)
    /\ stop_moves = [t \in 1..MaxTrades |-> [be |-> 0, trail |-> 0]]
    /\ terminal_ts = <<>>

\* no thread of the supervisor is inside a sweep
ThreadIdle == sweep = [op |-> "idle", todo |-> <<>>, calling |-> FALSE]

\* run_private_ws has not been called
WsIdle ==
    /\ ws_pc = "off"
    /\ ws_reconnect = TRUE
    /\ ws_on_order = FALSE
    /\ ws_clock = 0
    /\ ws_app = [expires |-> None, sig |-> <<>>]
    /\ ws_sent = <<>>
    /\ ws_got = [execution |-> 0, order |-> 0]

\* a file that does not exist, a file holding text
NoFile == [exists |-> FALSE, text |-> <<>>]

File(text) == [exists |-> TRUE, text |-> text]

\* lines 16-21: the state load_state returns when it finds no usable file
EmptyState ==
    [last_discord_id |-> None, open_trades |-> <<>>, daily_counts |-> <<>>,
     seen_hashes |-> <<>>]

\* no save_state is under way and nothing is on disk
DiskIdle ==
    /\ save_pc = [at |-> "idle", text |-> <<>>, st |-> EmptyState]
    /\ mem = EmptyState
    /\ state_file = NoFile
    /\ tmp_file = NoFile
    /\ disk_last = [some |-> FALSE, st |-> EmptyState]

\* no _request is under way
HttpIdle == req = [pc |-> "idle", attempt |-> 0, seen |-> <<>>, slept |-> <<>>,
                   error |-> "", decode_caught |-> FALSE]

Init ==
    /\ DRY_RUN \in BOOLEAN
    /\ INITIAL_SL_PCT = DefaultInitialSlPct
    /\ ThreadIdle
    /\ EngineInit
    /\ WsIdle
    /\ DiskIdle
    /\ HttpIdle

\* the supervisor admits a signal: place_conditional_entry, then the record is
\* stored and the day is counted when an order id came back
Admit ==
    /\ next_id < MaxTrades
    /\ \E sig \in Signals, lastp \in LastPrices, equity \in Equities, fail \in AdmitFails :
         LET tid == next_id + 1
             r == place_conditional_entry(sig, tid, lastp, equity, fail)
             took == ~r.raised /\ r.ret # NoOid
         IN  /\ open_trades' =
                    IF took
                    THEN [t \in (DOMAIN open_trades) \cup {tid} |->
                             IF t = tid
                             THEN NewTrade(sig, tid, r.ret, calc_base_qty(equity, sig.trigger))
                             ELSE open_trades[t]]
                    ELSE open_trades
             /\ daily_counts' = IF took THEN incr_daily(daily_counts) ELSE daily_counts
             /\ next_id' = IF took THEN tid ELSE next_id
             /\ Exchange(r.calls)
             /\ last' = [Ran("admit", tid, r.calls) EXCEPT
                            !.ret = r.ret, !.raised = r.raised,
                            !.side = IF sig.side = "sell" THEN "Sell" ELSE "Buy",
                            !.lastp = lastp, !.trigger = sig.trigger]
    /\ UNCHANGED <<DRY_RUN, INITIAL_SL_PCT, now, stop_moves, terminal_ts, thread_vars, ws_vars, disk_vars, http_vars>>

\* place_post_entry_orders is run for a trade "after entry is filled" (line
\* 179), and again while post_orders_placed is false ("will retry post-orders",
\* line 214)
PostEntry ==
    /\ \E t \in DOMAIN open_trades, size \in Sizes, lastp \in LayLastPrices, fail \in LayFails :
         /\ (open_trades[t].dca_prices = <<>> => lastp = 1007)
         /\ open_trades[t].status = "open"
         /\ ~open_trades[t].post_orders_placed
         /\ fail <= Len(LayDownSteps(open_trades[t], size, lastp))
         /\ LET r == place_post_entry_orders(open_trades[t], size, lastp, fail)
            IN  /\ open_trades' = [open_trades EXCEPT ![t] = r.trade]
                /\ Exchange(r.calls)
                /\ last' = [Ran("post_entry", t, r.calls) EXCEPT
                               !.raised = r.raised, !.size = size]
    /\ UNCHANGED <<DRY_RUN, INITIAL_SL_PCT, daily_counts, now, next_id, stop_moves, terminal_ts,
                   thread_vars, ws_vars, disk_vars, http_vars>>

\* the exchange reports fills of orders it holds, and events the engine cannot
\* place; with DRY_RUN it holds no order of the engine and any event is fed in
Reported(link) ==
    \/ DRY_RUN
    \/ link \in accepted
    \/ link.tid \in {None, 0}
    \/ link.tag = "DCA"
    \/ (link.tag = "TP" /\ link.n = 0)

\* on_execution reaches an exchange call for this event
CallsExchange(link) ==
    /\ link.tag = "TP" /\ link.n # 0
    /\ link.tid \in DOMAIN open_trades

ExecEvent ==
    /\ \E ev \in Events :
         /\ Reported(ev.link)
         /\ \E fail \in (IF CallsExchange(ev.link) THEN ExecFails ELSE {"none"}),
               lastp \in (IF CallsExchange(ev.link)
                             /\ Len(open_trades[ev.link.tid].tp_prices) < ev.link.n
                          THEN LastPrices ELSE {None}) :
              LET r == on_execution(ev, lastp, fail)
              IN  /\ open_trades' = r.trades
                  /\ Exchange(r.calls)
                  /\ last' = [Ran("exec", ev.link.tid, r.calls) EXCEPT
                                 !.raised = r.raised, !.tag = ev.link.tag,
                                 !.n = ev.link.n, !.filled = r.filled]
                  /\ stop_moves' = StopMovesAfter(ev.link.tid, r.calls)
    /\ UNCHANGED <<DRY_RUN, INITIAL_SL_PCT, daily_counts, now, next_id, terminal_ts,
                   thread_vars, ws_vars, disk_vars, http_vars>>

CancelExpired ==
    /\ \E fails \in SUBSET DOMAIN open_trades :
         LET calls == CancelCalls(DOMAIN open_trades, fails)
         IN  /\ open_trades' = cancel_expired_entries(fails)
             /\ Exchange(calls)
             /\ last' = Ran("cancel_expired", None, calls)
             /\ terminal_ts' = TerminalAfter(cancel_expired_entries(fails))
    /\ UNCHANGED <<DRY_RUN, INITIAL_SL_PCT, daily_counts, now, next_id, stop_moves,
                   thread_vars, ws_vars, disk_vars, http_vars>>

CleanupClosed ==
    /\ \E sz \in [DOMAIN open_trades -> Sizes \cup {None}] :
         /\ open_trades' = cleanup_closed_trades(sz)
         /\ last' = [Ran("cleanup", None, <<>>) EXCEPT !.sizes = sz]
         /\ terminal_ts' = TerminalAfter(cleanup_closed_trades(sz))
    /\ UNCHANGED <<DRY_RUN, INITIAL_SL_PCT, daily_counts, now, next_id, stop_moves,
                   accepted, resubmitted, last_stop, thread_vars, ws_vars, disk_vars, http_vars>>

\* the clock moves on by a day and a second
Advance ==
    /\ now < 1 + MaxAdvance * 86401
    /\ now' = now + 86401
    /\ last' = Ran("advance", None, <<>>)
    /\ UNCHANGED <<DRY_RUN, INITIAL_SL_PCT, open_trades, daily_counts, next_id, stop_moves, terminal_ts,
                   accepted, resubmitted, last_stop, thread_vars, ws_vars, disk_vars, http_vars>>

Next ==
    \/ Admit
    \/ PostEntry
    \/ ExecEvent
    \/ CancelExpired
    \/ CleanupClosed
    \/ Advance

Spec == Init /\ [][Next]_vars

----------------------------------------------------------------------------
(* The maintenance sweeps over a table of several trades *)

\* the signal behind trade t: the two signals in turn
SigOf(t) ==
    CHOOSE sig \in Signals : sig.symbol = (IF t % 2 = 1 THEN "BTCUSDT" ELSE "ETHUSDT")

\* trade t as admitted at the start, its entry waiting at the exchange
PendingTrade(t) ==
    NewTrade(SigOf(t), t, IF DRY_RUN THEN "DRY_RUN" ELSE "oid-entry",
             calc_base_qty(100000, SigOf(t).trigger))

\* trade t after its entry fill
OpenTrade(t) ==
    EntryFill(PendingTrade(t), Event(Link(t, "", 0), <<PyStr(1002), PyNone, PyNone>>))

\* the engine holds SweepTrades trades, each pending or open
InitSweep ==
    /\ DRY_RUN \in BOOLEAN
    /\ INITIAL_SL_PCT = DefaultInitialSlPct
    /\ ThreadIdle
    /\ now = 1
    /\ open_trades \in [1..SweepTrades -> UNION {{PendingTrade(t), OpenTrade(t)} : t \in 1..SweepTrades}]
    /\ \A t \in 1..SweepTrades : open_trades[t].id = t
    /\ daily_counts = [d \in {_utc_day_key} |-> SweepTrades]
    /\ next_id = SweepTrades
    /\ accepted = IF DRY_RUN THEN {} ELSE {Link(t, "", 0) : t \in 1..SweepTrades}
    /\ resubmitted = {}
    /\ last_stop = [s \in Symbols |-> Call("none", s, FALSE)]
    /\ last = Ran("init", None, <<>>)
    /\ stop_moves = [t \in 1..SweepTrades |-> [be |-> 0, trail |-> 0]]
    /\ terminal_ts = <<>>
    /\ WsIdle
    /\ DiskIdle
    /\ HttpIdle

NextSweep ==
    \/ CancelExpired
    \/ CleanupClosed
    \/ Advance

SpecSweep == InitSweep /\ [][NextSweep]_vars

\* the sweeps and the execution events, each run to its end, the supervisor
\* running cancel_expired_entries again and again while the clock moves on
NextLive ==
    \/ CancelExpired
    \/ CleanupClosed
    \/ ExecEvent
    \/ Advance

SpecLive ==
    /\ InitSweep
    /\ [][NextLive]_vars
    /\ WF_vars(CancelExpired)
    /\ WF_vars(Advance)

----------------------------------------------------------------------------
(* The sweep of the supervisor and the callback of the private stream as two
   threads.  _on_message calls on_execution on the thread of the stream
   (bybit_v5.py, line 160); the engine holds no lock, and the sweep waits for
   the exchange inside its loop (trade_engine.py, line 395). *)

\* the ids of a set of trades in the order of open_trades
RECURSIVE InOrder(_)
InOrder(ids) ==
    IF ids = {} THEN <<>>
    ELSE LET t == CHOOSE x \in ids : \A y \in ids : x <= y
         IN  <<t>> \o InOrder(ids \ {t})

\* line 388: the sweep starts on a copy of the items of open_trades
SweepBegin ==
    /\ sweep.op = "idle"
    /\ sweep' = [op |-> "cancel_expired", todo |-> InOrder(DOMAIN open_trades),
                 calling |-> FALSE]
    /\ UNCHANGED <<engine_vars, ws_vars, disk_vars, http_vars>>

\* lines 389-395, 400: the tests on the next trade; its cancel is sent when one
\* is due, else the trade is marked at once or passed over
SweepCheck ==
    /\ sweep.op = "cancel_expired" /\ ~sweep.calling /\ sweep.todo # <<>>
    /\ LET t == Head(sweep.todo)
           r == ExpireOne(t, {})
       IN  IF r.calls # <<>>
           THEN /\ sweep' = [sweep EXCEPT !.calling = TRUE]
                /\ UNCHANGED open_trades
           ELSE /\ sweep' = [sweep EXCEPT !.todo = Tail(@)]
                /\ open_trades' = [open_trades EXCEPT ![t] = r.trade]
    /\ UNCHANGED <<DRY_RUN, INITIAL_SL_PCT, daily_counts, now, next_id, accepted, resubmitted,
                   last_stop, last, stop_moves, terminal_ts, ws_vars, disk_vars, http_vars>>

\* lines 395-400: cancel_order returns or raises, and the trade is marked
SweepReturn ==
    /\ sweep.op = "cancel_expired" /\ sweep.calling
    /\ \E ok \in BOOLEAN :
         LET t == Head(sweep.todo)
             call == [Call("cancel_order", open_trades[t].symbol, ok)
                        EXCEPT !.link = Link(t, "", 0)]
         IN  /\ open_trades' = [open_trades EXCEPT ![t].status = "expired"]
             /\ Exchange(<<call>>)
             /\ last' = Ran("cancel_expired", t, <<call>>)
    /\ sweep' = [sweep EXCEPT !.todo = Tail(@), !.calling = FALSE]
    /\ UNCHANGED <<DRY_RUN, INITIAL_SL_PCT, daily_counts, now, next_id, stop_moves, terminal_ts,
                   ws_vars, disk_vars, http_vars>>

\* the loop has passed over every trade
SweepEnd ==
    /\ sweep.op = "cancel_expired" /\ ~sweep.calling /\ sweep.todo = <<>>
    /\ sweep' = [sweep EXCEPT !.op = "idle"]
    /\ UNCHANGED <<engine_vars, ws_vars, disk_vars, http_vars>>

\* the clock moves on while no sweep is under way
Tock ==
    /\ sweep.op = "idle"
    /\ Advance

NextThreads ==
    \/ SweepBegin
    \/ SweepCheck
    \/ SweepReturn
    \/ SweepEnd
    \/ ExecEvent
    \/ Tock

SpecThreads == InitSweep /\ [][NextThreads]_vars

----------------------------------------------------------------------------
(* run_private_ws (bybit_v5.py): the thread of the private stream *)

\* the default of the reconnect_delay argument, in seconds
reconnect_delay == 2

\* hmac.new(api_secret, payload, sha256): the key and what was signed
Hmac(key, payload) == <<key, payload>>

\* the messages of _on_open
AuthMsg(app) == [op |-> "auth", args |-> <<"api_key", app.expires, app.sig>>]

SubscribeMsg == [op |-> "subscribe", args |-> <<"execution", "order">>]

\* messages of the stream: text that is no JSON, and JSON with a topic and
\* data that is missing, one event or a list of events
WsMessages ==
    {[json |-> FALSE, topic |-> "", data |-> 0]}
    \cup {[json |-> TRUE, topic |-> tp, data |-> d] :
             tp \in {"execution", "order", "wallet", ""}, d \in 0..2}

\* a run_private_ws that makes its WebSocketApp once and keeps it
WsMakeOnce ==
    /\ ws_pc = "start"
    /\ ws_app' = IF ws_app.expires = None
                 THEN [expires |-> ws_clock * 1000 + 10000,
                       sig |-> Hmac("api_secret", <<"GET/realtime", ws_clock * 1000 + 10000>>)]
                 ELSE ws_app
    /\ ws_sent' = <<>>
    /\ ws_got' = [execution |-> 0, order |-> 0]
    /\ ws_pc' = "connecting"
    /\ UNCHANGED <<engine_vars, thread_vars, disk_vars, http_vars, ws_reconnect, ws_on_order, ws_clock>>

\* lines 139-142, 181-187, 190-191: _make_ws signs a new expiry and run_forever
\* starts to connect
WsMake ==
    /\ ws_pc = "start"
    /\ ws_app' = [expires |-> ws_clock * 1000 + 10000,
                  sig |-> Hmac("api_secret", <<"GET/realtime", ws_clock * 1000 + 10000>>)]
    /\ ws_sent' = <<>>
    /\ ws_got' = [execution |-> 0, order |-> 0]
    /\ ws_pc' = "connecting"
    /\ UNCHANGED <<engine_vars, thread_vars, disk_vars, http_vars, ws_reconnect, ws_on_order, ws_clock>>

\* the connection is made and _on_open is called, or the attempt fails and
\* run_forever returns
WsConnect ==
    /\ ws_pc = "connecting"
    /\ ws_pc' \in {"on_open", "ended"}
    /\ UNCHANGED <<engine_vars, thread_vars, disk_vars, http_vars, ws_reconnect, ws_on_order,
                   ws_clock, ws_app, ws_sent, ws_got>>

\* line 145: the auth message is sent, or the send raises on a lost connection
WsSendAuth ==
    /\ ws_pc = "on_open"
    /\ \/ ws_sent' = Append(ws_sent, AuthMsg(ws_app)) /\ ws_pc' = "authed"
       \/ ws_sent' = ws_sent /\ ws_pc' = "lost"
    /\ UNCHANGED <<engine_vars, thread_vars, disk_vars, http_vars, ws_reconnect, ws_on_order,
                   ws_clock, ws_app, ws_got>>

\* line 146: the subscribe message is sent, or the send raises
WsSendSubscribe ==
    /\ ws_pc = "authed"
    /\ \/ ws_sent' = Append(ws_sent, SubscribeMsg) /\ ws_pc' = "open"
       \/ ws_sent' = ws_sent /\ ws_pc' = "lost"
    /\ UNCHANGED <<engine_vars, thread_vars, disk_vars, http_vars, ws_reconnect, ws_on_order,
                   ws_clock, ws_app, ws_got>>

\* lines 148-169: _on_message hands the events of an execution message to
\* on_execution and those of an order message to on_order, when given
WsMessage ==
    /\ ws_pc = "open"
    /\ \E msg \in WsMessages :
         LET events == IF msg.json THEN msg.data ELSE 0
             ex == IF msg.topic = "execution" THEN events ELSE 0
             ord == IF msg.topic = "order" /\ ws_on_order THEN events ELSE 0
         IN  ws_got' = [execution |-> Min(ws_got.execution + ex, MaxWsEvents),
                        order |-> Min(ws_got.order + ord, MaxWsEvents)]
    /\ UNCHANGED <<engine_vars, thread_vars, disk_vars, http_vars, ws_pc, ws_reconnect, ws_on_order,
                   ws_clock, ws_app, ws_sent>>

\* the connection ends and run_forever returns
WsEnd ==
    /\ ws_pc \in {"open", "lost"}
    /\ ws_pc' = "ended"
    /\ UNCHANGED <<engine_vars, thread_vars, disk_vars, http_vars, ws_reconnect, ws_on_order,
                   ws_clock, ws_app, ws_sent, ws_got>>

\* a loop that is left after the first connection whatever reconnect says
WsCheckOnce ==
    /\ ws_pc = "ended"
    /\ ws_pc' = "stopped"
    /\ UNCHANGED <<engine_vars, thread_vars, disk_vars, http_vars, ws_reconnect, ws_on_order,
                   ws_clock, ws_app, ws_sent, ws_got>>

\* lines 193-194: the loop is left when reconnect is off
WsCheck ==
    /\ ws_pc = "ended"
    /\ ws_pc' = IF ~ws_reconnect THEN "stopped" ELSE "sleep"
    /\ UNCHANGED <<engine_vars, thread_vars, disk_vars, http_vars, ws_reconnect, ws_on_order,
                   ws_clock, ws_app, ws_sent, ws_got>>

\* line 196: time.sleep(reconnect_delay), then the next turn of the loop
WsSleep ==
    /\ ws_pc = "sleep"
    /\ ws_clock' = Min(ws_clock + reconnect_delay, MaxWsClock)
    /\ ws_pc' = "start"
    /\ UNCHANGED <<engine_vars, thread_vars, disk_vars, http_vars, ws_reconnect, ws_on_order,
                   ws_app, ws_sent, ws_got>>

\* run_private_ws is called with its arguments
InitWs ==
    /\ DRY_RUN = FALSE
    /\ INITIAL_SL_PCT = DefaultInitialSlPct
    /\ ThreadIdle
    /\ EngineInit
    /\ DiskIdle
    /\ HttpIdle
    /\ ws_pc = "start"
    /\ ws_reconnect \in BOOLEAN
    /\ ws_on_order \in BOOLEAN
    /\ ws_clock = 0
    /\ ws_app = [expires |-> None, sig |-> <<>>]
    /\ ws_sent = <<>>
    /\ ws_got = [execution |-> 0, order |-> 0]

NextWs ==
    \/ WsMake
    \/ WsConnect
    \/ WsSendAuth
    \/ WsSendSubscribe
    \/ WsMessage
    \/ WsEnd
    \/ WsCheck
    \/ WsSleep

\* the thread of the stream keeps running: a step of its loop that can be
\* taken is taken
SpecWs ==
    InitWs /\ [][NextWs]_vars
    /\ WF_vars(WsCheck) /\ WF_vars(WsSleep) /\ WF_vars(WsMake)

----------------------------------------------------------------------------
(* state.py: load_state and save_state on the files of the disk *)

\* the state dicts the process holds between two saves
MemStates ==
    [last_discord_id : {None, 7},
     open_trades : {<<>>, [t \in {1} |-> [status |-> "pending", entry_price |-> None]],
                    [t \in {1} |-> [status |-> "open", entry_price |-> 1002]]},
     daily_counts : {<<>>, [d \in {20394} |-> 1]},
     seen_hashes : {<<>>, <<"h1">>}]

\* json.dumps of a value: None becomes null, any other value its JSON text
JsonOf(v) == IF v = None THEN [json |-> "null", v |-> 0] ELSE [json |-> "value", v |-> v]

\* json.loads of such a text
ValueOf(j) == IF j.json = "null" THEN None ELSE j.v

\* json.dumps(st, ...): the text as its pieces, in the order of the keys
Dumps(st) ==
    << "{",
       <<"last_discord_id", JsonOf(st.last_discord_id)>>,
       <<"open_trades", [json |-> "value", v |-> st.open_trades]>>,
       <<"daily_counts", [json |-> "value", v |-> st.daily_counts]>>,
       <<"seen_hashes", [json |-> "value", v |-> st.seen_hashes]>>,
       "}" >>

\* json.loads accepts the text: it is a whole object
Parses(text) == Len(text) = 6 /\ text[6] = "}"

\* json.loads(text) of a text it accepts
Loads(text) ==
    [last_discord_id |-> ValueOf(text[2][2]),
     open_trades |-> ValueOf(text[3][2]),
     daily_counts |-> ValueOf(text[4][2]),
     seen_hashes |-> ValueOf(text[5][2])]

\* load_state(): the parsed file, or the empty state when the file is missing
\* or does not parse
load_state ==
    IF state_file.exists /\ Parses(state_file.text)
    THEN Loads(state_file.text)
    ELSE EmptyState

\* the engine changes its state dict between two saves
Mutate ==
    /\ save_pc.at = "idle"
    /\ mem' \in MemStates
    /\ mem' # mem
    /\ UNCHANGED <<engine_vars, thread_vars, ws_vars, http_vars, save_pc, state_file, tmp_file, disk_last>>

\* line 25: json.dumps(st) builds the text before any file is touched
SaveDump ==
    /\ save_pc.at = "idle"
    /\ save_pc' = [at |-> "dumped", text |-> Dumps(mem), st |-> mem]
    /\ UNCHANGED <<engine_vars, thread_vars, ws_vars, http_vars, mem, state_file, tmp_file, disk_last>>

\* a save_state that opens STATE_FILE itself for writing
SaveOpenInPlace ==
    /\ save_pc.at = "dumped"
    /\ state_file' = File(<<>>)
    /\ tmp_file' = File(<<>>)
    /\ save_pc' = [save_pc EXCEPT !.at = "writing"]
    /\ UNCHANGED <<engine_vars, thread_vars, ws_vars, http_vars, mem, disk_last>>

\* line 25: write_text opens the temporary file, which empties it
SaveOpen ==
    /\ save_pc.at = "dumped"
    /\ tmp_file' = File(<<>>)
    /\ save_pc' = [save_pc EXCEPT !.at = "writing"]
    /\ UNCHANGED <<engine_vars, thread_vars, ws_vars, http_vars, mem, state_file, disk_last>>

\* line 25: write_text writes the next piece of the text and closes the file
\* after the last
SaveWrite ==
    /\ save_pc.at = "writing"
    /\ IF Len(tmp_file.text) < Len(save_pc.text)
       THEN /\ tmp_file' = File(Append(tmp_file.text, save_pc.text[Len(tmp_file.text) + 1]))
            /\ UNCHANGED save_pc
       ELSE /\ save_pc' = [save_pc EXCEPT !.at = "written"]
            /\ UNCHANGED tmp_file
    /\ UNCHANGED <<engine_vars, thread_vars, ws_vars, http_vars, mem, state_file, disk_last>>

\* line 26: tmp.replace(STATE_FILE) renames the temporary file in one step
SaveReplace ==
    /\ save_pc.at = "written"
    /\ state_file' = tmp_file
    /\ tmp_file' = NoFile
    /\ disk_last' = [some |-> TRUE, st |-> save_pc.st]
    /\ save_pc' = [at |-> "idle", text |-> <<>>, st |-> EmptyState]
    /\ UNCHANGED <<engine_vars, thread_vars, ws_vars, http_vars, mem>>

\* the process dies at any point and is started again: load_state
Crash ==
    /\ save_pc' = [at |-> "idle", text |-> <<>>, st |-> EmptyState]
    /\ mem' = load_state
    /\ UNCHANGED <<engine_vars, thread_vars, ws_vars, http_vars, state_file, tmp_file, disk_last>>

InitDisk ==
    /\ DRY_RUN = FALSE
    /\ INITIAL_SL_PCT = DefaultInitialSlPct
    /\ ThreadIdle
    /\ EngineInit
    /\ WsIdle
    /\ DiskIdle
    /\ HttpIdle

NextDisk ==
    \/ Mutate
    \/ SaveDump
    \/ SaveOpen
    \/ SaveWrite
    \/ SaveReplace
    \/ Crash

SpecDisk == InitDisk /\ [][NextDisk]_vars

----------------------------------------------------------------------------
(* BybitV5._request (src/bybit_v5.py lines 37-76) *)

\* line 50: for attempt in range(5)
Attempts == 5

\* line 55: the statuses the loop sleeps on and sends again
RetryStatuses == {429, 502, 503, 504}

\* the HTTP statuses the exchange answers with
Statuses == RetryStatuses \cup {200, 400, 500}

\* the body of a response with status 200, by its retCode: 0, "0", no retCode,
\* an error code; PyBad is a body that is no JSON
Bodies == {PyNum(0), PyStr(0), PyNone, PyNum(10001), PyBad}

\* what one session.request (line 52) brings: a requests.RequestException of
\* the transport (connection error, timeout), or a response
NetworkError == [kind |-> "network", status |-> None, body |-> PyNone]

Response(status, body) == [kind |-> "http", status |-> status, body |-> body]

Outcomes ==
    {NetworkError}
    \cup {Response(st, PyNone) : st \in Statuses \ {200}}
    \cup {Response(200, b) : b \in Bodies}

\* lines 51-74, one turn of the loop on what session.request brought.
\* raise_for_status (line 60) raises requests.HTTPError on a status of 400 and
\* above; HTTPError is a requests.RequestException, and so is the transport's
\* error, and both reach the except clause of line 71.  r.json() (line 61) on
\* a body that is no JSON raises an error that is a RequestException in some
\* releases of requests and a plain ValueError in others: decode_caught says
\* which.  wait is in hundredths of a second.
Turn(attempt, out, decode_caught) ==
    LET caught ==
            \/ out.kind = "network"
            \/ (out.kind = "http" /\ out.status >= 400)
            \/ (out.kind = "http" /\ out.status < 400 /\ out.body = PyBad /\ decode_caught)
    IN  IF out.kind = "http" /\ out.status \in RetryStatuses
        THEN [next |-> "continue", wait |-> Min(800, 75 * (attempt + 1)), error |-> ""]
        ELSE IF caught
        THEN IF attempt = 4
             THEN [next |-> "raise", wait |-> 0,
                   error |-> IF out.kind = "network" THEN "RequestException"
                             ELSE IF out.body = PyBad THEN "JSONDecodeError"
                             ELSE "HTTPError"]
             ELSE [next |-> "continue", wait |-> Min(600, 75 * (attempt + 1)), error |-> ""]
        ELSE IF out.body = PyBad
        THEN [next |-> "raise", wait |-> 0, error |-> "ValueError"]
        ELSE IF out.body \notin {PyNum(0), PyStr(0), PyNone}
        THEN [next |-> "raise", wait |-> 0, error |-> "RuntimeError retCode"]
        ELSE [next |-> "return", wait |-> 0, error |-> ""]

\* lines 38-48: a caller enters _request; payload and headers are built once
HttpCall ==
    /\ req.pc \in {"idle", "returned", "raised"}
    /\ req' = [req EXCEPT !.pc = "try", !.attempt = 0, !.seen = <<>>,
                          !.slept = <<>>, !.error = ""]
    /\ UNCHANGED <<engine_vars, thread_vars, ws_vars, disk_vars>>

\* lines 50-76: one attempt; when the loop runs out after a sleep on a retry
\* status, line 76 raises
HttpAttempt ==
    /\ req.pc = "try"
    /\ \E out \in Outcomes :
         LET t == Turn(req.attempt, out, req.decode_caught)
             seen == Append(req.seen, out)
             slept == IF t.next = "continue" THEN Append(req.slept, t.wait) ELSE req.slept
         IN  req' = IF t.next = "continue" /\ req.attempt + 1 < Attempts
                    THEN [req EXCEPT !.attempt = req.attempt + 1, !.seen = seen,
                                     !.slept = slept]
                    ELSE IF t.next = "continue"
                    THEN [req EXCEPT !.pc = "raised", !.seen = seen, !.slept = slept,
                                     !.error = "RuntimeError retries"]
                    ELSE IF t.next = "raise"
                    THEN [req EXCEPT !.pc = "raised", !.seen = seen, !.error = t.error]
                    ELSE [req EXCEPT !.pc = "returned", !.seen = seen]
    /\ UNCHANGED <<engine_vars, thread_vars, ws_vars, disk_vars>>

\* a client with either release of requests, no call made yet
InitHttp ==
    /\ DRY_RUN = FALSE
    /\ INITIAL_SL_PCT = DefaultInitialSlPct
    /\ ThreadIdle
    /\ EngineInit
    /\ WsIdle
    /\ DiskIdle
    /\ \E d \in BOOLEAN :
         req = [pc |-> "idle", attempt |-> 0, seen |-> <<>>, slept |-> <<>>,
                error |-> "", decode_caught |-> d]

NextHttp ==
    \/ HttpCall
    \/ HttpAttempt

SpecHttp == InitHttp /\ [][NextHttp]_vars

----------------------------------------------------------------------------
(* place_post_entry_orders over the configured default stop distance *)

\* values of INITIAL_SL_PCT the environment can set (config.py line 51), in percent
InitialSlPcts == {10, 19, 25}

\* prices the entry fills at
FillPrices == {997, 1002}

\* the signals with the stop-loss a signal can give for its side, or none
StopSignals ==
    {g \in {[sig EXCEPT !.sl_price = sl] : sig \in Signals, sl \in {None, 958, 1043}} :
        g.sl_price \in (IF g.side = "sell" THEN {None, 1043} ELSE {None, 958})}

\* an open trade whose post-entry orders are still to be laid down: a signal
\* with or without a stop-loss, admitted and filled
StopTrades ==
    {EntryFill(NewTrade(g, 1, "oid-entry", calc_base_qty(100000, g.trigger)),
               Event(Link(1, "", 0), <<PyStr(p), PyNone, PyNone>>)) :
        g \in StopSignals, p \in FillPrices}

\* the engine holds one such trade; INITIAL_SL_PCT is any configured value
InitStop ==
    /\ DRY_RUN = FALSE
    /\ INITIAL_SL_PCT \in InitialSlPcts
    /\ ThreadIdle
    /\ now = 1
    /\ open_trades \in [{1} -> StopTrades]
    /\ daily_counts = [d \in {_utc_day_key} |-> 1]
    /\ next_id = 1
    /\ accepted = {Link(1, "", 0)}
    /\ resubmitted = {}
    /\ last_stop = [s \in Symbols |-> Call("none", s, FALSE)]
    /\ last = Ran("init", None, <<>>)
    /\ stop_moves = [t \in 1..MaxTrades |-> [be |-> 0, trail |-> 0]]
    /\ terminal_ts = <<>>
    /\ WsIdle
    /\ DiskIdle
    /\ HttpIdle

NextStop == PostEntry

SpecStop == InitStop /\ [][NextStop]_vars

----------------------------------------------------------------------------
(* Properties *)

Tick == rules.tick_size

\* entry_price holds a price above zero
HasEntryPrice(tr) == tr.entry_price # None /\ tr.entry_price > 0

\* the calls of the last handler that name this exchange operation
LastCalls(fn) == {i \in 1..Len(last.calls) : last.calls[i].fn = fn}

\* the last handler was on_execution moving a pending trade to open
JustFilled == last.op = "exec" /\ last.filled /\ last.tid \in DOMAIN open_trades

\* C1: after on_execution has processed the entry fill of a pending trade, the
\* trade is open, has a filled_ts and an entry_price above zero, whatever price
\* fields the event carried.
C1_FillSetsEntryPrice ==
    (JustFilled /\ ~DRY_RUN) =>
        /\ open_trades[last.tid].status = "open"
        /\ open_trades[last.tid].filled_ts # None
        /\ HasEntryPrice(open_trades[last.tid])

C3_FailedCancelStaysPending ==
    last.op = "cancel_expired" =>
        \A i \in LastCalls("cancel_order") :
            ~last.calls[i].ok => open_trades[last.calls[i].link.tid].status = "pending"

\* C4: for every trade with sl_moved_to_be, the most recent set_trading_stop
\* for its symbol carried stopLoss = round_price(entry_price, tick).
C4_BreakEvenIsLastStop ==
    \A t \in DOMAIN open_trades :
        (open_trades[t].sl_moved_to_be /\ HasEntryPrice(open_trades[t]) /\ ~DRY_RUN) =>
            /\ last_stop[open_trades[t].symbol].fn = "set_trading_stop"
            /\ last_stop[open_trades[t].symbol].stopLoss
                   = PyRound(open_trades[t].entry_price, Tick) * Tick

\* the trailing fields the claim expects for a trade: the tick-rounded price of
\* the anchor TP and that price times TRAIL_DISTANCE_PCT / 100, tick-rounded
AnchorOf(tr) == PyRound(tr.tp_prices[TRAIL_AFTER_TP_INDEX], Tick) * Tick

DistOf(tr) ==
    PyRound(AnchorOf(tr) * TRAIL_DISTANCE_PCT[1], 100 * TRAIL_DISTANCE_PCT[2] * Tick) * Tick

CarriesTrailing(body, tr) ==
    /\ body.fn = "set_trading_stop"
    /\ body.activePrice = AnchorOf(tr)
    /\ body.trailingStop = DistOf(tr)

\* C5 as claimed: for every trade with trailing_started, the most recent
\* set_trading_stop carried the anchor as activePrice and the distance as
\* trailingStop, in every order of the TP events.
C5_TrailingIsLastStop ==
    \A t \in DOMAIN open_trades :
        (open_trades[t].trailing_started /\ open_trades[t].post_orders_placed /\ ~DRY_RUN) =>
            CarriesTrailing(last_stop[open_trades[t].symbol], open_trades[t])

\* C5 as amended: with DRY_RUN off, the set_trading_stop issued by the event
\* that sets trailing_started carries the anchor as activePrice and the
\* distance as trailingStop; later calls need not.
C5_TrailingCallCarriesAnchor ==
    [][\A t \in (DOMAIN open_trades) \cap (DOMAIN open_trades') :
          (~open_trades[t].trailing_started /\ open_trades'[t].trailing_started /\ ~DRY_RUN) =>
              CarriesTrailing(last_stop'[open_trades[t].symbol], open_trades[t])]_vars

\* TP1 arrived after the trailing TP and moved the stop-loss
C5_Witness ==
    /\ ~DRY_RUN
    /\ last.op = "exec" /\ last.tag = "TP" /\ last.n = 1 /\ last.calls # <<>>
    /\ last.tid \in DOMAIN open_trades
    /\ open_trades[last.tid].trailing_started
    /\ open_trades[last.tid].sl_moved_to_be

\* C6: a record with sl_moved_to_be has sl_price = round_price(entry_price, tick).
C6_RecordStopIsBreakEven ==
    \A t \in DOMAIN open_trades :
        (open_trades[t].sl_moved_to_be /\ HasEntryPrice(open_trades[t]) /\ ~DRY_RUN) =>
            open_trades[t].sl_price = PyRound(open_trades[t].entry_price, Tick) * Tick

\* the too-far gate as C8 states it, against the unadjusted trigger
TooFarGate(side, lastp, trigger) ==
    IF side = "Buy"
    THEN lastp * 1000 >= trigger * (1000 + 5)
    ELSE lastp * 1000 <= trigger * (1000 - 5)

\* C7: with DRY_RUN no handler calls a mutating exchange operation, and an
\* admission that passes the gates returns the sentinel order id.
C7_DryRunNoMutatingCall ==
    DRY_RUN =>
        /\ last.calls = <<>>
        /\ accepted = {}
        /\ \A s \in Symbols : last_stop[s].fn = "none"
        /\ (last.op = "admit" /\ ~last.raised
              /\ ~TooFarGate(last.side, last.lastp, last.trigger))
           => last.ret = "DRY_RUN"

\* a lay-down and both TP reactions have run with DRY_RUN
C7_Witness ==
    /\ DRY_RUN
    /\ \E t \in DOMAIN open_trades :
          /\ open_trades[t].post_orders_placed
          /\ open_trades[t].sl_moved_to_be
          /\ open_trades[t].trailing_started
          /\ open_trades[t].tp_order_ids # <<>>

\* C8: an admission rejected at the too-far gate submits no order, returns no
\* order id and leaves open_trades and daily_counts as they were.
C8_TooFarRejects ==
    [][(last'.op = "admit" /\ TooFarGate(last'.side, last'.lastp, last'.trigger)) =>
          /\ open_trades' = open_trades
          /\ daily_counts' = daily_counts
          /\ last'.ret = NoOid
          /\ \A i \in 1..Len(last'.calls) : last'.calls[i].fn # "place_order"]_vars

C8_Witness ==
    /\ last.op = "admit" /\ ~last.raised /\ ~DRY_RUN
    /\ last.side = "Sell"
    /\ TooFarGate(last.side, last.lastp, last.trigger)

\* the TP orders of the last lay-down, by rank
TpCall(n) ==
    {i \in LastCalls("place_order") :
        last.calls[i].link.tag = "TP" /\ last.calls[i].link.n = n}

\* round_qty(P * split / 100): floor to qty_step, then at least min_qty
FloorQty(P, split) == ((P * split) \div (100 * rules.qty_step)) * rules.qty_step

RoundQty(P, split) ==
    IF FloorQty(P, split) < rules.min_qty THEN rules.min_qty ELSE FloorQty(P, split)

EachTpIsRounded ==
    \A n \in 1..4 : \A i \in TpCall(n) :
        last.calls[i].qty = RoundQty(last.size, TP_SPLITS[n])

AllFourPlaced == \A n \in 1..4 : \E i \in TpCall(n) : last.calls[i].ok

TpSum ==
    RoundQty(last.size, 30) + RoundQty(last.size, 30)
        + RoundQty(last.size, 30) + RoundQty(last.size, 10)

\* C9 as claimed: each TP quantity is round_qty(P * split_i / 100) and the four
\* quantities sum to at most P.
C9_TpQuantities ==
    (last.op = "post_entry" /\ AllFourPlaced) =>
        (EachTpIsRounded /\ TpSum <= last.size)

\* C9 as amended: each TP quantity is round_qty(P * split_i / 100); the sum is
\* at most P when no quantity was raised to min_qty.
C9_TpQuantitiesFloored ==
    last.op = "post_entry" =>
        /\ EachTpIsRounded
        /\ (AllFourPlaced /\ \A n \in 1..4 : FloorQty(last.size, TP_SPLITS[n]) >= rules.min_qty)
           => TpSum <= last.size

C9_Witness ==
    /\ last.op = "post_entry" /\ AllFourPlaced
    /\ \A n \in 1..4 : FloorQty(last.size, TP_SPLITS[n]) >= rules.min_qty
    /\ \E n \in 1..4 : FloorQty(last.size, TP_SPLITS[n]) * 100 < last.size * TP_SPLITS[n]

\* C10: no orderLinkId is handed to place_order again after the exchange has
\* accepted an order with it.
C10_LinkIdsSubmittedOnce == resubmitted = {}

\* C11: a closed or expired trade leaves open_trades only when 24 hours have
\* passed since it entered that status, and the first cleanup sweep after that
\* drops it; an expired trade is never pruned within 24 hours of the sweep that
\* marked it expired.
C11_PrunedADayAfterTerminal ==
    [][/\ \A t \in (DOMAIN open_trades) \ (DOMAIN open_trades') :
             /\ t \in DOMAIN terminal_ts
             /\ now - terminal_ts[t] >= 86400
       /\ last'.op = "cleanup" =>
             \A t \in (DOMAIN open_trades') \cap (DOMAIN terminal_ts') :
                 now - terminal_ts'[t] <= 86400]_vars

\* rank of a lay-down call in the intended sequence: the stop-loss update, the
\* TP orders, the DCA orders
SeqRank(c) ==
    IF c.fn = "set_trading_stop" THEN 1
    ELSE IF c.fn = "place_order" /\ c.link.tag = "TP" THEN 2
    ELSE IF c.fn = "place_order" /\ c.link.tag = "DCA" THEN 3
    ELSE 4

\* C15: the calls of an invocation of place_post_entry_orders come in the order
\* stop-loss update, TP orders by rank, DCA orders by index; a call that fails
\* is the last of the invocation, and post_orders_placed is then still false.
C15_LayDownInOrder ==
    last.op = "post_entry" =>
        /\ \A i, j \in 1..Len(last.calls) :
              i < j =>
                 /\ SeqRank(last.calls[i]) <= SeqRank(last.calls[j])
                 /\ SeqRank(last.calls[j]) <= 3
                 /\ (SeqRank(last.calls[i]) = SeqRank(last.calls[j]))
                       => (SeqRank(last.calls[i]) > 1
                           /\ last.calls[i].link.n < last.calls[j].link.n)
        /\ (~DRY_RUN /\ last.calls # <<>>) => SeqRank(last.calls[1]) = 1
        /\ \A i \in 1..Len(last.calls) : ~last.calls[i].ok => i = Len(last.calls)
        /\ last.raised => ~open_trades[last.tid].post_orders_placed

\* a lay-down that failed in a DCA order after the stop-loss and the four TPs
C15_Witness ==
    /\ last.op = "post_entry" /\ last.raised /\ Len(last.calls) = 6
    /\ ~last.calls[6].ok /\ SeqRank(last.calls[6]) = 3

\* C16: an invocation of place_post_entry_orders that reads position size 0
\* submits no TP and no DCA order, records no TP order id and leaves
\* post_orders_placed false; post_orders_placed turns true only in an
\* invocation that read a size above 0 and in which every submission returned.
C16_NoPositionNoOrders ==
    [][/\ (last'.op = "post_entry" /\ last'.size = 0) =>
             /\ \A i \in 1..Len(last'.calls) : last'.calls[i].fn # "place_order"
             /\ open_trades'[last'.tid].tp_order_ids = open_trades[last'.tid].tp_order_ids
             /\ ~open_trades'[last'.tid].post_orders_placed
       /\ \A t \in (DOMAIN open_trades) \cap (DOMAIN open_trades') :
             (~open_trades[t].post_orders_placed /\ open_trades'[t].post_orders_placed) =>
                 /\ last'.op = "post_entry" /\ last'.tid = t
                 /\ last'.size > 0 /\ ~last'.raised
                 /\ \A i \in 1..Len(last'.calls) : last'.calls[i].ok
                 /\ ~DRY_RUN =>
                       /\ \A n \in 1..Min(Len(open_trades[t].tp_prices), Len(TP_SPLITS)) :
                             \E i \in 1..Len(last'.calls) :
                                 last'.calls[i].link = Link(t, "TP", n)
                       /\ \A n \in 1..Min(Len(open_trades[t].dca_prices), Len(DCA_QTY_MULTS)) :
                             \E i \in 1..Len(last'.calls) :
                                 last'.calls[i].link = Link(t, "DCA", n)]_vars

\* a lay-down found no position and returned, after an earlier one had failed
\* part-way
C16_Witness ==
    /\ last.op = "post_entry" /\ last.size = 0 /\ ~last.raised /\ ~DRY_RUN
    /\ open_trades[last.tid].tp_order_ids # <<>>

\* C17: over any sequence of execution events the break-even move returns at
\* most once per trade and the trailing activation at most once, and
\* sl_moved_to_be and trailing_started never turn false again.
C17_StopMovesOnce ==
    [][/\ \A t \in DOMAIN stop_moves' :
             stop_moves'[t].be <= 1 /\ stop_moves'[t].trail <= 1
       /\ \A t \in (DOMAIN open_trades) \cap (DOMAIN open_trades') :
             /\ open_trades[t].sl_moved_to_be => open_trades'[t].sl_moved_to_be
             /\ open_trades[t].trailing_started => open_trades'[t].trailing_started]_vars

\* a second TP1 event arrived after both moves had been made
C17_Witness ==
    /\ last.op = "exec" /\ last.tag = "TP" /\ last.n = 1 /\ last.calls = <<>> /\ ~DRY_RUN
    /\ last.tid \in DOMAIN open_trades
    /\ stop_moves[last.tid] = [be |-> 1, trail |-> 1]

\* C18: cleanup_closed_trades sets an open trade to closed, stamping closed_ts,
\* exactly when the position size it read for the trade is zero; an open trade
\* with another size stays open; a pending trade is never set to closed.
C18_ClosedWhenFlat ==
    [][\A t \in DOMAIN open_trades :
          /\ (last'.op = "cleanup" /\ open_trades[t].status = "open") =>
                 /\ t \in DOMAIN open_trades'
                 /\ IF last'.sizes[t] = 0
                    THEN /\ open_trades'[t].status = "closed"
                         /\ open_trades'[t].closed_ts = now
                    ELSE open_trades'[t] = open_trades[t]
          /\ (t \in DOMAIN open_trades' /\ open_trades'[t].status = "closed"
                 /\ open_trades[t].status # "closed") =>
                 /\ last'.op = "cleanup"
                 /\ open_trades[t].status = "open"]_vars

\* a sweep closed a trade whose post-entry orders were in place
C18_Witness ==
    /\ last.op = "cleanup"
    /\ \E t \in DOMAIN open_trades :
          /\ open_trades[t].status = "closed" /\ open_trades[t].closed_ts = now
          /\ open_trades[t].post_orders_placed
          /\ last.sizes[t] = 0

\* the event on_execution handled last names no order the engine reacts to: no
\* orderLinkId, the id of no trade, a suffix that is not TPn with n >= 1
EventOfNoUse(ev) ==
    \/ ev.tid = None
    \/ ev.tid \notin DOMAIN open_trades
    \/ ev.tag \notin {"", "TP"}
    \/ (ev.tag = "TP" /\ ev.n < 1)

CancelOf(t) ==
    {i \in 1..Len(last'.calls) :
        last'.calls[i].fn = "cancel_order" /\ last'.calls[i].link.tid = t}

\* C19: in a sweep over several trades an exchange error met for one trade
\* does not end the sweep: every other trade is handled as in a sweep without
\* the error. An overdue pending trade is cancelled and expired, an open trade
\* whose position is flat is closed, any other trade is left as it was.
C19_SweepGoesOn ==
    [][/\ last'.op = "cancel_expired" =>
             \A t \in DOMAIN open_trades :
                 (\A i \in CancelOf(t) : last'.calls[i].ok) =>
                     IF Overdue(open_trades[t])
                     THEN /\ open_trades'[t] = [open_trades[t] EXCEPT !.status = "expired"]
                          /\ (~DRY_RUN /\ open_trades[t].entry_order_id # NoOid)
                                => CancelOf(t) # {}
                     ELSE /\ open_trades'[t] = open_trades[t]
                          /\ CancelOf(t) = {}
       /\ last'.op = "cleanup" =>
             \A t \in DOMAIN open_trades :
                 (open_trades[t].status = "open" /\ last'.sizes[t] = 0) =>
                     /\ t \in DOMAIN open_trades'
                     /\ open_trades'[t] = [open_trades[t] EXCEPT !.status = "closed",
                                                                 !.closed_ts = now]]_vars

\* the cancel for the first trade raised and the second trade was cancelled
\* and expired in the same sweep
C19_Witness ==
    /\ last.op = "cancel_expired" /\ Len(last.calls) = 2
    /\ ~last.calls[1].ok /\ last.calls[1].link.tid = 1
    /\ last.calls[2].ok /\ last.calls[2].link.tid = 2
    /\ open_trades[2].status = "expired"

\* C12: engine work is serialized: on_execution never runs between the steps
\* of a maintenance sweep; a handler has read and written open_trades to its
\* end before another starts.
C12_HandlersSerialized ==
    /\ last.op = "exec" => last.during = "idle"
    /\ sweep.calling => open_trades[Head(sweep.todo)].status = "pending"

\* the auth message signed for the current time of the stream's thread
FreshAuth ==
    [op |-> "auth",
     args |-> <<"api_key", ws_clock * 1000 + 10000,
                <<"api_secret", <<"GET/realtime", ws_clock * 1000 + 10000>>>>>>]

\* while the connection of this turn exists, what has been sent on it is the
\* start of: fresh auth, subscribe
SentInOrder ==
    ws_pc \in {"on_open", "authed", "open", "lost"} =>
    /\ Len(ws_sent) <= 2
    /\ Len(ws_sent) >= 1 => ws_sent[1] = FreshAuth
    /\ Len(ws_sent) = 2 => ws_sent[2] = [op |-> "subscribe", args |-> <<"execution", "order">>]
    /\ ws_pc = "authed" => Len(ws_sent) = 1
    /\ ws_pc = "open" => Len(ws_sent) = 2
    /\ (ws_got.execution > 0 \/ ws_got.order > 0) => Len(ws_sent) = 2

\* C13: with reconnect on, run_private_ws never stops: every end of a
\* connection is followed by a new connection attempt; on every connection
\* the client sends a freshly signed auth message first and the subscribe to
\* execution and order second.
C13_ReconnectsAndAuthenticates ==
    /\ [](ws_reconnect => ws_pc # "stopped")
    /\ []SentInOrder
    /\ ((ws_reconnect /\ ws_pc = "ended") ~> (ws_pc = "connecting"))

\* a later connection is open, authenticated and subscribed, and has
\* delivered events
C13_Witness ==
    /\ ws_reconnect /\ ws_pc = "open" /\ ws_clock >= 2 * reconnect_delay
    /\ Len(ws_sent) = 2 /\ ws_got.execution > 0

Transient(out) == out.kind = "network" \/ out.status \in RetryStatuses

\* a response with a successful status and retCode 0 (0, "0", or none given)
Succeeds(out) ==
    out.kind = "http" /\ out.status = 200 /\ out.body \in {PyNum(0), PyStr(0), PyNone}

\* C21: _request makes at most 5 attempts; every attempt it followed by
\* another one failed on a status 429/502/503/504 or on a network error; what
\* it returns is a response with a successful status and retCode 0; and when
\* it raises after nothing but such failures, it has made 5 attempts.
C21_RetriesOnlyTransient ==
    LET n == Len(req.seen)
    IN  /\ n <= Attempts
        /\ \A i \in 1..n : (i < n \/ req.pc = "try") => Transient(req.seen[i])
        /\ req.pc = "returned" => (n > 0 /\ Succeeds(req.seen[n]))
        /\ (req.pc = "raised" /\ \A i \in 1..n : Transient(req.seen[i])) => n = Attempts

\* what holds of _request: it ends within 5 attempts, returns nothing but a
\* response with a successful status and retCode 0, and has made 5 attempts
\* when it raises after nothing but failures of the classes above
RequestEndsInFive ==
    LET n == Len(req.seen)
    IN  /\ n <= Attempts
        /\ req.pc = "try" => n < Attempts
        /\ req.pc = "returned" => (n > 0 /\ Succeeds(req.seen[n]))
        /\ (req.pc = "raised" /\ \A i \in 1..n : Transient(req.seen[i])) => n = Attempts

\* a status 400 has been answered and the request was sent again
RequestResentOnClientError ==
    /\ Len(req.seen) >= 2
    /\ req.seen[1] = Response(400, PyNone)

\* the stop-loss the lay-down is to submit for a trade: the signal's price, or
\* the price INITIAL_SL_PCT percent from the entry price on the adverse side;
\* tick-rounded
ConfiguredStop(tr) ==
    IF tr.sl_price = None
    THEN IF tr.order_side = "Sell"
         THEN _round_price(tr.entry_price * (100 + INITIAL_SL_PCT), 100, Tick)
         ELSE _round_price(tr.entry_price * (100 - INITIAL_SL_PCT), 100, Tick)
    ELSE _round_price(tr.sl_price, 1, Tick)

\* C22: the stopLoss of the set_trading_stop that place_post_entry_orders
\* submits is the signal's sl_price, tick-rounded, and without one the
\* tick-rounded price INITIAL_SL_PCT percent from entry_price on the adverse
\* side, whatever value INITIAL_SL_PCT is configured to.
C22_StopAtConfiguredDistance ==
    last.op = "post_entry" =>
        \A i \in 1..Len(last.calls) :
            last.calls[i].fn = "set_trading_stop" =>
                last.calls[i].stopLoss = ConfiguredStop(open_trades[last.tid])

\* a lay-down has submitted the stop of a trade without sl_price while
\* INITIAL_SL_PCT is not 19
StopSubmittedWithoutSignalStop ==
    /\ last.op = "post_entry" /\ last.calls # <<>>
    /\ last.calls[1].fn = "set_trading_stop" /\ last.calls[1].ok
    /\ open_trades[last.tid].sl_price = None
    /\ INITIAL_SL_PCT # DefaultInitialSlPct

\* the steps a status may take
StatusSteps == {<<"pending", "open">>, <<"pending", "expired">>, <<"open", "closed">>}

\* C23: over the operations of the engine, each run to its end, the status of
\* a trade changes only from pending to open, from pending to expired and
\* from open to closed; a closed or expired trade keeps its status until it is
\* pruned, a trade enters open_trades pending, and no other trade is pruned.
C23_StatusSteps ==
    [][/\ \A t \in DOMAIN open_trades \cap DOMAIN open_trades' :
            \/ open_trades'[t].status = open_trades[t].status
            \/ <<open_trades[t].status, open_trades'[t].status>> \in StatusSteps
       /\ \A t \in DOMAIN open_trades \ DOMAIN open_trades' :
            open_trades[t].status \in {"closed", "expired"}
       /\ \A t \in DOMAIN open_trades' \ DOMAIN open_trades :
            open_trades'[t].status = "pending"]_vars

\* the sweep for expired entries has run over a trade that is open and was
\* placed longer ago than ENTRY_EXPIRATION_MIN, and has left it open
C23_Witness ==
    \E t \in DOMAIN open_trades :
        /\ last.op = "cancel_expired"
        /\ open_trades[t].status = "open"
        /\ OverdueAnyStatus(open_trades[t])

\* C24: however the execution callback of the private stream interleaves
\* with cancel_expired_entries, a trade that is open (its entry fill has been
\* processed) is not set to expired.
C24_OpenNeverExpires ==
    [][\A t \in DOMAIN open_trades \cap DOMAIN open_trades' :
          open_trades[t].status = "open" => open_trades'[t].status # "expired"]_vars

\* C25: on_execution, given a TP event of a trade that is closed or expired,
\* issues no set_trading_stop and changes neither sl_moved_to_be nor
\* trailing_started.
C25_TerminalTradeUntouched ==
    [][(/\ last'.op = "exec" /\ last'.tag = "TP"
        /\ last'.tid \in DOMAIN open_trades
        /\ open_trades[last'.tid].status \in {"closed", "expired"}) =>
          /\ \A i \in 1..Len(last'.calls) : last'.calls[i].fn # "set_trading_stop"
          /\ open_trades'[last'.tid].sl_moved_to_be = open_trades[last'.tid].sl_moved_to_be
          /\ open_trades'[last'.tid].trailing_started = open_trades[last'.tid].trailing_started]_vars

\* with DRY_RUN off, the TP1 event of a closed trade has come in and
\* on_execution has sent a set_trading_stop that the exchange accepted
LateTpMovesStop ==
    /\ ~DRY_RUN
    /\ last.op = "exec" /\ last.tag = "TP" /\ last.n = 1
    /\ last.tid \in DOMAIN open_trades
    /\ open_trades[last.tid].status = "closed"
    /\ open_trades[last.tid].closed_ts # None
    /\ last.calls # <<>> /\ last.calls[1].fn = "set_trading_stop" /\ last.calls[1].ok

\* C26: with the sweep for expired entries run again and again and the clock
\* moving on, a trade that is pending leaves pending: a fill event sets it
\* open or cancel_expired_entries sets it expired.
C26_PendingLeaves ==
    \A t \in 1..SweepTrades :
        (t \in DOMAIN open_trades /\ open_trades[t].status = "pending")
            ~> (t \notin DOMAIN open_trades \/ open_trades[t].status # "pending")

\* with DRY_RUN off, a sweep whose cancel_order raised has set the trade expired
C26_Witness ==
    /\ ~DRY_RUN
    /\ last.op = "cancel_expired" /\ last.calls # <<>>
    /\ ~last.calls[1].ok
    /\ open_trades[last.calls[1].link.tid].status = "expired"

====
